---- MODULE Spec2Model ----
(***************************************************************************)
(* The chat view of the DocuMind client (the Chat component and the API    *)
(* client it calls), as a state machine.  One step is one event handled to *)
(* completion on the browser's single thread: a form submit, the           *)
(* settlement of a pending request, a change of the input box, a choice in *)
(* the document dropdown, a click in the summary view.                     *)
(*                                                                         *)
(* Spec follows the conversation, SummarySpec the summary view             *)
(* (DocumentSummaryModal), ClientSpec both together in short sessions,     *)
(* BadgeSpec the confidence badge over the range of confidences and        *)
(* DocumentsSpec the Documents page (selection, delete, list refresh).     *)
(*                                                                         *)
(* A text is a sequence of characters (one-character strings); a JS        *)
(* property that is undefined is a record field that is absent.            *)
(* Confidence and similarity scores are integers in units of 1/100000.     *)
(***************************************************************************)
EXTENDS Integers, Sequences, FiniteSets, TLC

VARIABLES
    messages,          \* Chat state: the message log
    input,             \* Chat state: the text of the input box
    loading,           \* Chat state: a query is being processed
    selectedDocument,  \* Chat state: document scope, "" for all documents
    documents,         \* Chat state: the fetched document list
    documentsPending,  \* the GET /documents call of loadDocuments is in flight
    token,             \* localStorage item 'token'
    location,          \* window.location.href
    now,               \* the last value read from Date.now()
    queryRequests,     \* the POST /query requests sent so far, in order
    queryResponses,    \* the outcomes of the settled POST /query calls, in order
    badges,            \* the confidence badge rendered for each message of the log
    showSummaryModal,            \* Chat state: the summary view is open
    selectedDocumentForSummary,  \* Chat state: the document of the summary view, by its
                                 \* document_id, "" for null
    modalLoading,      \* DocumentSummaryModal state: loading
    summaryData,       \* DocumentSummaryModal state: summaryData
    modalError,        \* DocumentSummaryModal state: error
    summarizeCalls,    \* the POST /documents/{id}/summarize calls made so far, in order
    pageDocuments,     \* Documents state: documents, the displayed list, by document_id
    pageLoading,       \* Documents state: loading
    selectedDocuments, \* Documents state: the selected document ids
    serverDocuments,   \* the ids of the documents the backend holds
    deleteOps,         \* the delete handlers started so far (single and bulk), in order
    fetchCalls         \* the GET /documents calls of fetchDocuments, in order

\* the state of the summary view and the calls made for it
summaryVars == <<showSummaryModal, selectedDocumentForSummary, modalLoading, summaryData,
                 modalError, summarizeCalls>>

\* the state that belongs to the conversation
chatVars == <<messages, input, loading, now, queryRequests, queryResponses, badges>>

\* the state of the Documents page, the backend's documents and the calls made for it
pageVars == <<pageDocuments, pageLoading, selectedDocuments, serverDocuments, deleteOps,
              fetchCalls>>

vars == <<messages, input, loading, selectedDocument, documents, documentsPending,
          token, location, now, queryRequests, queryResponses, badges, summaryVars,
          pageVars>>

(***************************************************************************)
(* Bounds of the model.                                                    *)
(***************************************************************************)
\* accepted submissions in one session
MaxSubmits == 2

\* summarize calls in one session
MaxSummarize == 3

\* requests of both kinds in one session, where questions and summaries mix
MaxRequests == 2

\* delete handlers (single and bulk) started in one session of the Documents page
MaxDeletes == 2

(***************************************************************************)
(* Texts.                                                                  *)
(***************************************************************************)
WhiteSpace == {" ", "\t"}

RECURSIVE TrimStart(_)
TrimStart(s) ==
    IF s # <<>> /\ Head(s) \in WhiteSpace THEN TrimStart(Tail(s)) ELSE s

RECURSIVE TrimEnd(_)
TrimEnd(s) ==
    IF s # <<>> /\ s[Len(s)] \in WhiteSpace
    THEN TrimEnd(SubSeq(s, 1, Len(s) - 1))
    ELSE s

\* String.prototype.trim
Trim(s) == TrimEnd(TrimStart(s))

\* what the user can have typed into the input box
Inputs ==
    { <<>>, <<" ">>, <<" ", "a", "\t">> }

\* the text a quick-action button puts into the input box
QuickActionText == <<"Summarize this document">>

ApologyText ==
    <<"I apologize, but I encountered an error while processing your request. Please try again.">>

NoToken == "null"

(***************************************************************************)
(* What the backend can answer.  status 0 stands for a call that got no    *)
(* response at all (network error, timeout).                               *)
(***************************************************************************)
QueryResponses ==
    { [status |-> 200,
       data |-> [answer |-> <<"A">>,
                 sources |-> << [filename |-> "report.pdf", similarity_score |-> 86700] >>,
                 confidence |-> 90000]],
      [status |-> 200, data |-> [detail |-> "no answer"]],
      [status |-> 401],
      [status |-> 0] }

DocumentsResponses ==
    { [status |-> 200,
       data |-> [documents |-> << [document_id |-> "doc-123", filename |-> "report.pdf"] >>]],
      [status |-> 200, data |-> [message |-> "none"]],
      [status |-> 500],
      [status |-> 401] }

\* axios rejects a call that got no response or a status outside 2xx
Rejected(r) == r.status # 200

(***************************************************************************)
(* The API client.                                                         *)
(***************************************************************************)
\* an interceptor that sends the token without its scheme
RequestHeaders_BareToken ==
    IF token # NoToken
    THEN [ContentType |-> "application/json", Authorization |-> <<token>>]
    ELSE [ContentType |-> "application/json"]

\* request interceptor: the headers of an outgoing request
RequestHeaders ==
    IF token # NoToken
    THEN [ContentType |-> "application/json", Authorization |-> <<"Bearer ", token>>]
    ELSE [ContentType |-> "application/json"]

\* an interceptor that leaves the stored token alone
TokenAfter_Keep(r) == token

\* response interceptor: the stored token after response r
TokenAfter(r) == IF r.status = 401 THEN NoToken ELSE token

\* response interceptor: window.location.href after response r
LocationAfter(r) == IF r.status = 401 THEN "/login" ELSE location

\* a request that carries document_id whatever the scope
queryDocuments_AlwaysScoped(query, conversationHistory, documentId) ==
    [url |-> "/query",
     headers |-> RequestHeaders,
     body |-> [query |-> query,
               conversation_history |-> conversationHistory,
               document_id |-> documentId]]

\* queryService.queryDocuments: the request it posts
queryDocuments(query, conversationHistory, documentId) ==
    [url |-> "/query",
     headers |-> RequestHeaders,
     body |-> IF documentId # ""
              THEN [query |-> query,
                    conversation_history |-> conversationHistory,
                    document_id |-> documentId]
              ELSE [query |-> query,
                    conversation_history |-> conversationHistory]]

(***************************************************************************)
(* The confidence badge of a rendered message.                             *)
(***************************************************************************)
\* buckets whose lower bounds are exclusive
getConfidenceText_Strict(confidence) ==
    IF confidence > 80000 THEN "High"
    ELSE IF confidence > 60000 THEN "Medium"
    ELSE "Low"

getConfidenceText(confidence) ==
    IF confidence >= 80000 THEN "High"
    ELSE IF confidence >= 60000 THEN "Medium"
    ELSE "Low"

\* the bucket the badge of a message shows, "Unknown" when no badge is rendered
ConfidenceBadge(message) ==
    IF message.type = "bot" /\ "confidence" \in DOMAIN message
    THEN getConfidenceText(message.confidence)
    ELSE "Unknown"

\* the badges of a rendered log
Badges(log) == [i \in 1 .. Len(log) |-> ConfidenceBadge(log[i])]

(***************************************************************************)
(* Chat.handleSubmit.                                                      *)
(***************************************************************************)
\* milliseconds between the last reading of the clock and a submit: none, one, more
Elapsed == {0, 1, 2}

\* the values Date.now() can return when the user submits; time is counted from
\* the first reading of the session
DateNow == IF queryRequests = <<>> THEN {now} ELSE {now + d : d \in Elapsed}

\* the value Date.now() returns when the query call settles, a round trip later (its
\* length plays no part: a reply's id is this reading plus one)
DateNowSettled == now + 1

\* a log that grows at its head
AppendMessage_AtHead(prev, m) == <<m>> \o prev

\* a log whose newest message is overwritten by the next one
AppendMessage_OverLast(prev, m) ==
    IF prev = <<>> THEN <<m>> ELSE Append(SubSeq(prev, 1, Len(prev) - 1), m)

\* setMessages(prev => [...prev, m])
AppendMessage(prev, m) == Append(prev, m)

\* a guard that forgets the loading flag
CanSubmit_IgnoreLoading == ~(Trim(input) = <<>>)

\* a guard that tests the input without trimming it
CanSubmit_NoTrim == ~(input = <<>> \/ loading)

\* the guard of handleSubmit: false means the handler returns at once
CanSubmit == ~(Trim(input) = <<>> \/ loading)

userMessage(t) == [id |-> t, type |-> "user", content |-> Trim(input)]

\* one message of the log as a conversation turn
ConversationTurn(msg) ==
    IF "content" \in DOMAIN msg
    THEN [role |-> IF msg.type = "user" THEN "user" ELSE "assistant",
          content |-> msg.content]
    ELSE [role |-> IF msg.type = "user" THEN "user" ELSE "assistant"]

\* a history taken from the log after the user message was added to it
conversationHistory_WithQuestion ==
    [i \in 1 .. Len(messages) + 1 |->
        IF i <= Len(messages)
        THEN ConversationTurn(messages[i])
        ELSE [role |-> "user", content |-> Trim(input)]]

\* a history that passes the message type on as the role
conversationHistory_TypeAsRole ==
    [i \in 1 .. Len(messages) |->
        IF "content" \in DOMAIN messages[i]
        THEN [role |-> messages[i].type, content |-> messages[i].content]
        ELSE [role |-> messages[i].type]]

\* messages.map(...) over the log the handler was rendered with
conversationHistory ==
    [i \in 1 .. Len(messages) |-> ConversationTurn(messages[i])]

\* response.sources || []
SourcesOf(data) == IF "sources" \in DOMAIN data THEN data.sources ELSE <<>>

botMessage(data, t) ==
    CASE "answer" \in DOMAIN data /\ "confidence" \in DOMAIN data ->
           [id |-> t + 1, type |-> "bot", content |-> data.answer,
            sources |-> SourcesOf(data), confidence |-> data.confidence]
      [] "answer" \in DOMAIN data /\ "confidence" \notin DOMAIN data ->
           [id |-> t + 1, type |-> "bot", content |-> data.answer,
            sources |-> SourcesOf(data)]
      [] "answer" \notin DOMAIN data /\ "confidence" \in DOMAIN data ->
           [id |-> t + 1, type |-> "bot",
            sources |-> SourcesOf(data), confidence |-> data.confidence]
      [] OTHER ->
           [id |-> t + 1, type |-> "bot", sources |-> SourcesOf(data)]

\* a fallback message that carries no confidence
errorMessage_NoConfidence(t) ==
    [id |-> t + 1, type |-> "bot", content |-> ApologyText, sources |-> <<>>]

errorMessage(t) ==
    [id |-> t + 1, type |-> "bot", content |-> ApologyText,
     sources |-> <<>>, confidence |-> 0]

\* the submit event of the form: the part of handleSubmit up to its await
handleSubmit ==
    /\ CanSubmit => Len(queryRequests) < MaxSubmits
    /\ IF ~CanSubmit
       THEN UNCHANGED <<messages, input, loading, now, queryRequests>>
       ELSE \E t \in DateNow :
              /\ now' = t
              /\ messages' = AppendMessage(messages, userMessage(t))
              /\ input' = <<>>
              /\ loading' = TRUE
              /\ queryRequests' =
                    Append(queryRequests,
                           queryDocuments(Trim(input), conversationHistory,
                                          selectedDocument))
    /\ UNCHANGED <<selectedDocument, documents, documentsPending, token, location,
                   queryResponses>>
    /\ badges' = Badges(messages')
    /\ UNCHANGED <<summaryVars, pageVars>>

\* a fulfilment handled without the finally block
QueryFulfilled_NoFinally(r) ==
    /\ Len(queryResponses) < Len(queryRequests)
    /\ ~Rejected(r)
    /\ queryResponses' = Append(queryResponses, r)
    /\ now' = DateNowSettled
    /\ messages' = AppendMessage(messages, botMessage(r.data, DateNowSettled))
    /\ UNCHANGED <<input, loading, selectedDocument, documents, documentsPending, token,
                   location, queryRequests>>
    /\ badges' = Badges(messages')
    /\ UNCHANGED <<summaryVars, pageVars>>

\* the query call is fulfilled: the rest of the try block, then finally
QueryFulfilled(r) ==
    /\ Len(queryResponses) < Len(queryRequests)
    /\ ~Rejected(r)
    /\ queryResponses' = Append(queryResponses, r)
    /\ now' = DateNowSettled
    /\ messages' = AppendMessage(messages, botMessage(r.data, DateNowSettled))
    /\ loading' = FALSE
    /\ UNCHANGED <<input, selectedDocument, documents, documentsPending, token, location,
                   queryRequests>>
    /\ badges' = Badges(messages')
    /\ UNCHANGED <<summaryVars, pageVars>>

\* a rejection answered by sending the request again
QueryRejected_Retry(r) ==
    /\ Len(queryResponses) < Len(queryRequests)
    /\ Rejected(r)
    /\ queryResponses' = Append(queryResponses, r)
    /\ token' = TokenAfter(r)
    /\ location' = LocationAfter(r)
    /\ queryRequests' = Append(queryRequests, queryRequests[Len(queryRequests)])
    /\ UNCHANGED <<messages, badges, now, input, loading, selectedDocument, documents,
                   documentsPending>>
    /\ UNCHANGED <<summaryVars, pageVars>>

\* a rejection handled without the finally block
QueryRejected_NoFinally(r) ==
    /\ Len(queryResponses) < Len(queryRequests)
    /\ Rejected(r)
    /\ queryResponses' = Append(queryResponses, r)
    /\ token' = TokenAfter(r)
    /\ location' = LocationAfter(r)
    /\ now' = DateNowSettled
    /\ messages' = AppendMessage(messages, errorMessage(DateNowSettled))
    /\ UNCHANGED <<input, loading, selectedDocument, documents, documentsPending,
                   queryRequests>>
    /\ badges' = Badges(messages')
    /\ UNCHANGED <<summaryVars, pageVars>>

\* the query call is rejected: response interceptor, catch block, then finally
QueryRejected(r) ==
    /\ Len(queryResponses) < Len(queryRequests)
    /\ Rejected(r)
    /\ queryResponses' = Append(queryResponses, r)
    /\ token' = TokenAfter(r)
    /\ location' = LocationAfter(r)
    /\ now' = DateNowSettled
    /\ messages' = AppendMessage(messages, errorMessage(DateNowSettled))
    /\ loading' = FALSE
    /\ UNCHANGED <<input, selectedDocument, documents, documentsPending, queryRequests>>
    /\ badges' = Badges(messages')
    /\ UNCHANGED <<summaryVars, pageVars>>

(***************************************************************************)
(* The other handlers of the chat view.                                    *)
(***************************************************************************)
\* onChange of the input box, which is disabled while loading
setInput(text) ==
    /\ ~loading
    /\ input' = text
    /\ UNCHANGED <<messages, loading, selectedDocument, documents, documentsPending,
                   token, location, now, queryRequests, queryResponses>>
    /\ UNCHANGED <<badges, summaryVars, pageVars>>

\* a quick-action button
quickAction ==
    /\ input' = QuickActionText
    /\ UNCHANGED <<messages, loading, selectedDocument, documents, documentsPending,
                   token, location, now, queryRequests, queryResponses>>
    /\ UNCHANGED <<badges, summaryVars, pageVars>>

\* a dropdown that lists a document whatever the fetched list holds
DropdownChoices_NotFromList == {"", "doc-123"}

\* the entries of the document dropdown
DropdownChoices == {""} \cup {documents[i].document_id : i \in 1 .. Len(documents)}

\* a click on an entry of the document dropdown
setSelectedDocument(id) ==
    /\ id \in DropdownChoices
    /\ selectedDocument' = id
    /\ UNCHANGED <<messages, input, loading, documents, documentsPending, token, location,
                   now, queryRequests, queryResponses>>
    /\ UNCHANGED <<badges, summaryVars, pageVars>>

\* response.documents || []
DocumentsOf(data) == IF "documents" \in DOMAIN data THEN data.documents ELSE <<>>

\* loadDocuments, from the settlement of its GET /documents call on
loadDocuments(r) ==
    /\ documentsPending
    /\ documentsPending' = FALSE
    /\ token' = TokenAfter(r)
    /\ location' = LocationAfter(r)
    /\ documents' = IF Rejected(r) THEN documents ELSE DocumentsOf(r.data)
    /\ UNCHANGED <<messages, input, loading, selectedDocument, now, queryRequests,
                   queryResponses>>
    /\ UNCHANGED <<badges, summaryVars, pageVars>>

(***************************************************************************)
(* The summary view: the Summary button of the chat view and the           *)
(* DocumentSummaryModal it opens.  The modal is mounted for the life of    *)
(* the chat view, so its state outlives the closing of the view; its       *)
(* effects run with the render that follows the handler.                   *)
(***************************************************************************)
\* summaryData when it is null or undefined
NoSummary == <<>>

\* error when it is null
NoError == <<>>

SummaryErrorText == <<"Failed to generate document summary. Please try again.">>

\* what the backend can answer to a summarize call for the document
SummarizeResponses(documentId) ==
    { [status |-> 200, data |-> [summary |-> <<"summary of ", documentId>>]],
      [status |-> 200, data |-> [message |-> "accepted"]],
      [status |-> 500],
      [status |-> 401] }

\* documentService.summarizeDocument: the request it posts
summarizeDocument(documentId) ==
    [url |-> <<"/documents/", documentId, "/summarize">>, headers |-> RequestHeaders]

\* generateSummary called for the document of the render (named by its
\* document_id), up to its await
generateSummary(document) ==
    IF document = ""
    THEN UNCHANGED <<modalLoading, modalError, summarizeCalls>>
    ELSE /\ modalLoading' = TRUE
         /\ modalError' = NoError
         /\ summarizeCalls' =
               Append(summarizeCalls,
                      [request |-> summarizeDocument(document),
                       settled |-> FALSE])

\* documents.find(d => d.document_id === id): the document found, "" for none
FindDocument(id) ==
    IF \E i \in 1 .. Len(documents) : documents[i].document_id = id THEN id ELSE ""

\* the auto-generate effect runs its body: its dependencies changed with the
\* render, the view is open for a document, there is no summary and none loading
AutoGenerates(isOpen, document) ==
    /\ isOpen # showSummaryModal \/ document # selectedDocumentForSummary
    /\ isOpen
    /\ document # ""
    /\ summaryData = NoSummary
    /\ ~modalLoading

\* a Summary button that opens the view and leaves the generation to the user
openSummary_NoAutoGenerate ==
    /\ selectedDocument # ""
    /\ IF FindDocument(selectedDocument) = ""
       THEN UNCHANGED summaryVars
       ELSE /\ selectedDocumentForSummary' = FindDocument(selectedDocument)
            /\ showSummaryModal' = TRUE
            /\ UNCHANGED <<modalLoading, modalError, summarizeCalls, summaryData>>
    /\ UNCHANGED <<chatVars, selectedDocument, documents, documentsPending, token, location,
                   pageVars>>

\* a click on the Summary button of the chat view, with the effects of the render
\* that follows
openSummary ==
    /\ selectedDocument # ""
    /\ AutoGenerates(TRUE, FindDocument(selectedDocument))
       => Len(summarizeCalls) < MaxSummarize
    /\ IF FindDocument(selectedDocument) = ""
       THEN UNCHANGED summaryVars
       ELSE /\ selectedDocumentForSummary' = FindDocument(selectedDocument)
            /\ showSummaryModal' = TRUE
            /\ IF AutoGenerates(TRUE, FindDocument(selectedDocument))
               THEN generateSummary(FindDocument(selectedDocument))
               ELSE UNCHANGED <<modalLoading, modalError, summarizeCalls>>
            /\ UNCHANGED summaryData
    /\ UNCHANGED <<chatVars, selectedDocument, documents, documentsPending, token, location,
                   pageVars>>

\* a close that leaves the state of the modal as it is
onClose_KeepState ==
    /\ showSummaryModal
    /\ showSummaryModal' = FALSE
    /\ selectedDocumentForSummary' = ""
    /\ UNCHANGED <<summaryData, modalError, modalLoading, summarizeCalls>>
    /\ UNCHANGED <<chatVars, selectedDocument, documents, documentsPending, token, location,
                   pageVars>>

\* onClose (the Close button and the X of the modal), with the reset effect of the
\* render that follows
onClose ==
    /\ showSummaryModal
    /\ showSummaryModal' = FALSE
    /\ selectedDocumentForSummary' = ""
    /\ summaryData' = NoSummary
    /\ modalError' = NoError
    /\ modalLoading' = FALSE
    /\ UNCHANGED summarizeCalls
    /\ UNCHANGED <<chatVars, selectedDocument, documents, documentsPending, token, location,
                   pageVars>>

\* the Try Again button, rendered in the error view
tryAgain ==
    /\ showSummaryModal
    /\ ~modalLoading
    /\ modalError # NoError
    /\ Len(summarizeCalls) < MaxSummarize
    /\ generateSummary(selectedDocumentForSummary)
    /\ UNCHANGED <<showSummaryModal, selectedDocumentForSummary, summaryData>>
    /\ UNCHANGED <<chatVars, selectedDocument, documents, documentsPending, token, location,
                   pageVars>>

\* the Generate Summary button, rendered when there is nothing else to show
generate ==
    /\ showSummaryModal
    /\ ~modalLoading
    /\ modalError = NoError
    /\ summaryData = NoSummary
    /\ Len(summarizeCalls) < MaxSummarize
    /\ generateSummary(selectedDocumentForSummary)
    /\ UNCHANGED <<showSummaryModal, selectedDocumentForSummary, summaryData>>
    /\ UNCHANGED <<chatVars, selectedDocument, documents, documentsPending, token, location,
                   pageVars>>

\* a Regenerate button that is never disabled
regenerate_NotDisabled ==
    /\ showSummaryModal
    /\ summaryData # NoSummary
    /\ Len(summarizeCalls) < MaxSummarize
    /\ generateSummary(selectedDocumentForSummary)
    /\ UNCHANGED <<showSummaryModal, selectedDocumentForSummary, summaryData>>
    /\ UNCHANGED <<chatVars, selectedDocument, documents, documentsPending, token, location,
                   pageVars>>

\* a click on the Regenerate button of the footer, rendered once there is a
\* summary and disabled while loading
regenerate ==
    /\ showSummaryModal
    /\ summaryData # NoSummary
    /\ ~modalLoading => Len(summarizeCalls) < MaxSummarize
    /\ IF modalLoading
       THEN UNCHANGED <<modalLoading, modalError, summarizeCalls>>
       ELSE generateSummary(selectedDocumentForSummary)
    /\ UNCHANGED <<showSummaryModal, selectedDocumentForSummary, summaryData>>
    /\ UNCHANGED <<chatVars, selectedDocument, documents, documentsPending, token, location,
                   pageVars>>

\* call i has not settled yet
Pending(i) == i \in 1 .. Len(summarizeCalls) /\ ~summarizeCalls[i].settled

\* the document a summarize call was made for
DocumentOfCall(i) == summarizeCalls[i].request.url[2]

\* response.summary
SummaryIn(data) == IF "summary" \in DOMAIN data THEN data.summary ELSE NoSummary

\* a summarize call whose result is also put into the chat log
summarizeFulfilled_IntoLog(i, r) ==
    /\ Pending(i)
    /\ r \in SummarizeResponses(DocumentOfCall(i))
    /\ ~Rejected(r)
    /\ summarizeCalls' =
          [summarizeCalls EXCEPT
             ![i] = [request |-> @.request, settled |-> TRUE, response |-> r]]
    /\ summaryData' = SummaryIn(r.data)
    /\ modalLoading' = FALSE
    /\ messages' = AppendMessage(messages, botMessage([answer |-> SummaryIn(r.data)], now))
    /\ badges' = Badges(messages')
    /\ UNCHANGED <<showSummaryModal, selectedDocumentForSummary, modalError>>
    /\ UNCHANGED <<input, loading, now, queryRequests, queryResponses>>
    /\ UNCHANGED <<selectedDocument, documents, documentsPending, token, location, pageVars>>

\* summarize call i is fulfilled: the rest of the try block, then finally
summarizeFulfilled(i, r) ==
    /\ Pending(i)
    /\ r \in SummarizeResponses(DocumentOfCall(i))
    /\ ~Rejected(r)
    /\ summarizeCalls' =
          [summarizeCalls EXCEPT
             ![i] = [request |-> @.request, settled |-> TRUE, response |-> r]]
    /\ summaryData' = SummaryIn(r.data)
    /\ modalLoading' = FALSE
    /\ UNCHANGED <<showSummaryModal, selectedDocumentForSummary, modalError>>
    /\ UNCHANGED <<chatVars, selectedDocument, documents, documentsPending, token, location,
                   pageVars>>

\* a rejection that the catch block does not turn into an error state
summarizeRejected_NoCatch(i, r) ==
    /\ Pending(i)
    /\ r \in SummarizeResponses(DocumentOfCall(i))
    /\ Rejected(r)
    /\ summarizeCalls' =
          [summarizeCalls EXCEPT
             ![i] = [request |-> @.request, settled |-> TRUE, response |-> r]]
    /\ token' = TokenAfter(r)
    /\ location' = LocationAfter(r)
    /\ modalLoading' = FALSE
    /\ UNCHANGED <<showSummaryModal, selectedDocumentForSummary, summaryData, modalError>>
    /\ UNCHANGED <<chatVars, selectedDocument, documents, documentsPending, pageVars>>

\* summarize call i is rejected: response interceptor, catch block, then finally
summarizeRejected(i, r) ==
    /\ Pending(i)
    /\ r \in SummarizeResponses(DocumentOfCall(i))
    /\ Rejected(r)
    /\ summarizeCalls' =
          [summarizeCalls EXCEPT
             ![i] = [request |-> @.request, settled |-> TRUE, response |-> r]]
    /\ token' = TokenAfter(r)
    /\ location' = LocationAfter(r)
    /\ modalError' = SummaryErrorText
    /\ modalLoading' = FALSE
    /\ UNCHANGED <<showSummaryModal, selectedDocumentForSummary, summaryData>>
    /\ UNCHANGED <<chatVars, selectedDocument, documents, documentsPending, pageVars>>

(***************************************************************************)
(* The Documents page (the Documents component).  A delete handler is a    *)
(* record of deleteOps: the ids it sent DELETE for, the ids whose request  *)
(* succeeded and failed so far, and its phase: "deleting" while it awaits  *)
(* the requests, "refreshing" while it awaits fetchDocuments, "done" when  *)
(* it returned from its try block and "failed" when from its catch block.  *)
(* A GET /documents call records the handler that awaits it, 0 for the     *)
(* mount effect.                                                           *)
(***************************************************************************)
\* the ids of the documents the backend can list
KnownDocumentIds == {"doc-123", "doc-456"}

\* the outcomes of DELETE /documents/{id}: it succeeds only for a document the
\* backend holds
DeleteResponses(documentId) ==
    IF documentId \in serverDocuments
    THEN {[status |-> 200], [status |-> 500], [status |-> 401]}
    ELSE {[status |-> 404], [status |-> 401]}

\* the outcomes of GET /documents: the list the backend holds when it answers
ListResponses ==
    {[status |-> 200, data |-> [documents |-> serverDocuments]],
     [status |-> 500],
     [status |-> 401]}

\* filteredDocuments with the search box empty and the type filter on 'all'
filteredDocuments == pageDocuments

\* fetchDocuments up to its await, called by the handler owner
fetchDocuments(owner) ==
    /\ pageLoading' = TRUE
    /\ fetchCalls' = Append(fetchCalls, [owner |-> owner, settled |-> FALSE])

\* fetchDocuments from its await on, for call k settling with r; a handler that
\* awaited it returns
fetchDocumentsSettled(k, r) ==
    /\ k \in 1 .. Len(fetchCalls)
    /\ ~fetchCalls[k].settled
    /\ r \in ListResponses
    /\ fetchCalls' = [fetchCalls EXCEPT ![k].settled = TRUE]
    /\ token' = TokenAfter(r)
    /\ location' = LocationAfter(r)
    /\ pageDocuments' = IF Rejected(r) THEN pageDocuments ELSE r.data.documents
    /\ pageLoading' = FALSE
    /\ deleteOps' = IF fetchCalls[k].owner = 0
                    THEN deleteOps
                    ELSE [deleteOps EXCEPT ![fetchCalls[k].owner].phase = "done"]
    /\ UNCHANGED <<selectedDocuments, serverDocuments>>
    /\ UNCHANGED <<chatVars, summaryVars, selectedDocument, documents, documentsPending>>

\* handleSelectDocument, from the checkbox of a listed document
handleSelectDocument(documentId) ==
    /\ ~pageLoading
    /\ documentId \in filteredDocuments
    /\ selectedDocuments' = IF documentId \in selectedDocuments
                            THEN selectedDocuments \ {documentId}
                            ELSE selectedDocuments \cup {documentId}
    /\ UNCHANGED <<pageDocuments, pageLoading, serverDocuments, deleteOps, fetchCalls>>
    /\ UNCHANGED <<chatVars, summaryVars, selectedDocument, documents, documentsPending,
                   token, location>>

\* handleSelectAll, from the checkbox above a non-empty list
handleSelectAll ==
    /\ ~pageLoading
    /\ filteredDocuments # {}
    /\ selectedDocuments' = IF Cardinality(selectedDocuments) = Cardinality(filteredDocuments)
                            THEN {}
                            ELSE filteredDocuments
    /\ UNCHANGED <<pageDocuments, pageLoading, serverDocuments, deleteOps, fetchCalls>>
    /\ UNCHANGED <<chatVars, summaryVars, selectedDocument, documents, documentsPending,
                   token, location>>

\* handleDeleteDocument up to its await, from the delete button of a listed
\* document, the confirm dialog accepted
handleDeleteDocument(documentId) ==
    /\ ~pageLoading
    /\ documentId \in filteredDocuments
    /\ Len(deleteOps) < MaxDeletes
    /\ deleteOps' = Append(deleteOps, [bulk |-> FALSE, ids |-> {documentId},
                                       succeeded |-> {}, failed |-> {},
                                       phase |-> "deleting"])
    /\ UNCHANGED <<pageDocuments, pageLoading, selectedDocuments, serverDocuments,
                   fetchCalls>>
    /\ UNCHANGED <<chatVars, summaryVars, selectedDocument, documents, documentsPending,
                   token, location>>

\* handleDeleteDocument from its await on, for handler k and its request settling
\* with r
deleteDocumentSettled(k, r) ==
    /\ k \in 1 .. Len(deleteOps)
    /\ ~deleteOps[k].bulk
    /\ deleteOps[k].phase = "deleting"
    /\ \E documentId \in deleteOps[k].ids :
         /\ r \in DeleteResponses(documentId)
         /\ IF Rejected(r)
            THEN /\ deleteOps' = [deleteOps EXCEPT ![k].failed = {documentId},
                                                   ![k].phase = "failed"]
                 /\ UNCHANGED <<serverDocuments, pageLoading, fetchCalls>>
            ELSE /\ deleteOps' = [deleteOps EXCEPT ![k].succeeded = {documentId},
                                                   ![k].phase = "refreshing"]
                 /\ serverDocuments' = serverDocuments \ {documentId}
                 /\ fetchDocuments(k)
    /\ token' = TokenAfter(r)
    /\ location' = LocationAfter(r)
    /\ UNCHANGED <<pageDocuments, selectedDocuments>>
    /\ UNCHANGED <<chatVars, summaryVars, selectedDocument, documents, documentsPending>>

\* handleBulkDelete up to its await, from the Delete Selected button, the confirm
\* dialog accepted: one DELETE per selected id
handleBulkDelete ==
    /\ selectedDocuments # {}
    /\ Len(deleteOps) < MaxDeletes
    /\ deleteOps' = Append(deleteOps, [bulk |-> TRUE, ids |-> selectedDocuments,
                                       succeeded |-> {}, failed |-> {},
                                       phase |-> "deleting"])
    /\ UNCHANGED <<pageDocuments, pageLoading, selectedDocuments, serverDocuments,
                   fetchCalls>>
    /\ UNCHANGED <<chatVars, summaryVars, selectedDocument, documents, documentsPending,
                   token, location>>

\* one request of the bulk delete k settles with r.  Promise.all rejects with the
\* first request that fails, and the handler goes to its catch block; it resolves
\* when every request succeeded, and the handler clears the selection and
\* refreshes the list.  A request that settles after a failure changes the
\* backend only.
bulkDeleteSettled(k, documentId, r) ==
    /\ k \in 1 .. Len(deleteOps)
    /\ deleteOps[k].bulk
    /\ documentId \in deleteOps[k].ids \ (deleteOps[k].succeeded \cup deleteOps[k].failed)
    /\ r \in DeleteResponses(documentId)
    /\ serverDocuments' = IF Rejected(r) THEN serverDocuments
                          ELSE serverDocuments \ {documentId}
    /\ token' = TokenAfter(r)
    /\ location' = LocationAfter(r)
    /\ LET op == deleteOps[k]
           succeeded == IF Rejected(r) THEN op.succeeded ELSE op.succeeded \cup {documentId}
           failed == IF Rejected(r) THEN op.failed \cup {documentId} ELSE op.failed
           settledOp == [op EXCEPT !.succeeded = succeeded, !.failed = failed]
       IN  IF op.phase = "deleting" /\ Rejected(r)
           THEN /\ deleteOps' = [deleteOps EXCEPT ![k] = [settledOp EXCEPT !.phase = "failed"]]
                /\ UNCHANGED <<selectedDocuments, pageLoading, fetchCalls>>
           ELSE IF op.phase = "deleting" /\ succeeded = op.ids
           THEN /\ deleteOps' =
                     [deleteOps EXCEPT ![k] = [settledOp EXCEPT !.phase = "refreshing"]]
                /\ selectedDocuments' = {}
                /\ fetchDocuments(k)
           ELSE /\ deleteOps' = [deleteOps EXCEPT ![k] = settledOp]
                /\ UNCHANGED <<selectedDocuments, pageLoading, fetchCalls>>
    /\ UNCHANGED pageDocuments
    /\ UNCHANGED <<chatVars, summaryVars, selectedDocument, documents, documentsPending>>

(***************************************************************************)
(* The specification.                                                      *)
(***************************************************************************)
Init ==
    /\ messages = <<>>
    /\ input = <<>>
    /\ loading = FALSE
    /\ selectedDocument = ""
    /\ documents = <<>>
    /\ documentsPending = TRUE
    /\ token = "token"
    /\ location = "/chat"
    /\ now = 0
    /\ queryRequests = <<>>
    /\ queryResponses = <<>>
    /\ badges = <<>>
    /\ showSummaryModal = FALSE
    /\ selectedDocumentForSummary = ""
    /\ modalLoading = FALSE
    /\ summaryData = NoSummary
    /\ modalError = NoError
    /\ summarizeCalls = <<>>
    /\ pageDocuments = {}
    /\ pageLoading = TRUE
    /\ selectedDocuments = {}
    /\ serverDocuments = KnownDocumentIds
    /\ deleteOps = <<>>
    /\ fetchCalls = <<>>

Next ==
    \/ handleSubmit
    \/ \E r \in QueryResponses : QueryFulfilled(r)
    \/ \E r \in QueryResponses : QueryRejected(r)
    \/ \E text \in Inputs : setInput(text)
    \/ quickAction
    \/ \E id \in {"", "doc-123"} : setSelectedDocument(id)
    \/ \E r \in DocumentsResponses : loadDocuments(r)

Spec == Init /\ [][Next]_vars

\* a document list of two documents
TwoDocumentsResponse ==
    [status |-> 200,
     data |-> [documents |-> << [document_id |-> "doc-123", filename |-> "report.pdf"],
                                [document_id |-> "doc-456", filename |-> "notes.txt"] >>]]

\* the steps of the summary view, with the two of the chat view that lead to it
SummaryNext ==
    \/ \E r \in DocumentsResponses \cup {TwoDocumentsResponse} : loadDocuments(r)
    \/ \E id \in {""} \cup KnownDocumentIds : setSelectedDocument(id)
    \/ openSummary
    \/ onClose
    \/ tryAgain
    \/ generate
    \/ regenerate
    \/ \E i \in 1 .. MaxSummarize : \E d \in KnownDocumentIds :
          \E r \in SummarizeResponses(d) : summarizeFulfilled(i, r)
    \/ \E i \in 1 .. MaxSummarize : \E d \in KnownDocumentIds :
          \E r \in SummarizeResponses(d) : summarizeRejected(i, r)

\* the chat view with its summary view, no question being asked
SummarySpec == Init /\ [][SummaryNext]_vars

\* a request can still be sent
RequestsLeft == Len(queryRequests) + Len(summarizeCalls) < MaxRequests

\* questions and summaries in one session: every step that talks to the backend
ClientNext ==
    \/ RequestsLeft /\ handleSubmit
    \/ \E r \in QueryResponses : QueryFulfilled(r)
    \/ \E r \in QueryResponses : QueryRejected(r)
    \/ quickAction
    \/ \E id \in {"", "doc-123"} : setSelectedDocument(id)
    \/ \E r \in DocumentsResponses : loadDocuments(r)
    \/ RequestsLeft /\ openSummary
    \/ onClose
    \/ RequestsLeft /\ tryAgain
    \/ RequestsLeft /\ generate
    \/ RequestsLeft /\ regenerate
    \/ \E i \in 1 .. MaxSummarize :
          \E r \in SummarizeResponses("doc-123") : summarizeFulfilled(i, r)
    \/ \E i \in 1 .. MaxSummarize :
          \E r \in SummarizeResponses("doc-123") : summarizeRejected(i, r)

ClientSpec == Init /\ [][ClientNext]_vars

\* the confidences a reply can carry: the ends of the scale and both sides of
\* each threshold
Confidences == {0, 59999, 60000, 79999, 80000, 100000}

\* replies that differ in their confidence only, one of them carrying none
ConfidenceResponses ==
    { [status |-> 200, data |-> [answer |-> <<"A">>, confidence |-> c]] :
        c \in Confidences }
    \cup { [status |-> 200, data |-> [answer |-> <<"A">>]] }

\* a session of questions whose replies carry the confidences above
BadgeNext ==
    \/ quickAction
    \/ handleSubmit
    \/ \E r \in ConfidenceResponses : QueryFulfilled(r)

BadgeSpec == Init /\ [][BadgeNext]_vars

\* the Documents page after its first render: the mount effect has called
\* fetchDocuments, the chat view is not on the screen
DocumentsInit ==
    /\ messages = <<>>
    /\ input = <<>>
    /\ loading = FALSE
    /\ selectedDocument = ""
    /\ documents = <<>>
    /\ documentsPending = FALSE
    /\ token = "token"
    /\ location = "/documents"
    /\ now = 0
    /\ queryRequests = <<>>
    /\ queryResponses = <<>>
    /\ badges = <<>>
    /\ showSummaryModal = FALSE
    /\ selectedDocumentForSummary = ""
    /\ modalLoading = FALSE
    /\ summaryData = NoSummary
    /\ modalError = NoError
    /\ summarizeCalls = <<>>
    /\ pageDocuments = {}
    /\ pageLoading = TRUE
    /\ selectedDocuments = {}
    /\ serverDocuments = KnownDocumentIds
    /\ deleteOps = <<>>
    /\ fetchCalls = << [owner |-> 0, settled |-> FALSE] >>

\* the steps of the Documents page
DocumentsNext ==
    \/ \E k \in 1 .. MaxDeletes + 1 : \E r \in ListResponses : fetchDocumentsSettled(k, r)
    \/ \E id \in KnownDocumentIds : handleSelectDocument(id)
    \/ handleSelectAll
    \/ \E id \in KnownDocumentIds : handleDeleteDocument(id)
    \/ \E k \in 1 .. MaxDeletes : \E r \in [status : {200, 401, 404, 500}] :
          deleteDocumentSettled(k, r)
    \/ handleBulkDelete
    \/ \E k \in 1 .. MaxDeletes : \E id \in KnownDocumentIds :
          \E r \in [status : {200, 401, 404, 500}] : bulkDeleteSettled(k, id, r)

DocumentsSpec == DocumentsInit /\ [][DocumentsNext]_vars

\* a pending query call settles
QuerySettles == \E r \in QueryResponses : QueryFulfilled(r) \/ QueryRejected(r)

\* the behaviours in which every query call completes
FairSpec == Spec /\ WF_vars(QuerySettles)

(***************************************************************************)
(* Properties of the chat session.                                         *)
(***************************************************************************)
\* number of submissions accepted so far
Submitted == Len(queryRequests)

\* number of submissions whose query call has settled
Settled == Len(queryResponses)

\* the message is the assistant message built from the response body
IsReplyTo(msg, data) ==
    /\ msg.type = "bot"
    /\ IF "answer" \in DOMAIN data
       THEN "content" \in DOMAIN msg /\ msg.content = data.answer
       ELSE "content" \notin DOMAIN msg
    /\ msg.sources = (IF "sources" \in DOMAIN data THEN data.sources ELSE <<>>)

\* C1: once N submissions were accepted and their query calls all succeeded, the
\* log holds exactly 2N messages: message 2k-1 is the user message of submission k
\* and message 2k is the assistant reply to submission k.
C1_LogAlternates ==
    (Settled = Submitted /\ \A k \in 1 .. Settled : queryResponses[k].status = 200)
    => /\ Len(messages) = 2 * Submitted
       /\ \A k \in 1 .. Submitted :
            /\ messages[2 * k - 1].type = "user"
            /\ messages[2 * k - 1].content = queryRequests[k].body.query
            /\ IsReplyTo(messages[2 * k], queryResponses[k].data)

\* two successful turns with different questions and different replies
C1_Witness ==
    /\ Submitted = 2
    /\ Settled = 2
    /\ \A k \in 1 .. 2 : queryResponses[k].status = 200
    /\ queryRequests[1].body.query # queryRequests[2].body.query
    /\ queryResponses[1] # queryResponses[2]

\* C2: the history sent with submission k stops before the user message of
\* submission k (message 2k-1 of the log): it has one turn for each of the 2(k-1)
\* messages of submissions 1..k-1 and no more, the question travelling in query.
C2_HistoryExcludesQuestion ==
    \A k \in 1 .. Submitted :
        LET history == queryRequests[k].body.conversation_history
        IN  /\ Len(history) = 2 * (k - 1)
            /\ \A i \in 1 .. Len(history) :
                 history[i].role = (IF i % 2 = 1 THEN "user" ELSE "assistant")
            /\ messages[2 * k - 1].type = "user"
            /\ messages[2 * k - 1].content = queryRequests[k].body.query

\* the same question was asked twice: the second request carries the first turn as
\* its history, and only that
C2_Witness ==
    /\ Submitted = 2
    /\ Len(queryRequests[2].body.conversation_history) = 2
    /\ queryRequests[2].body.conversation_history[1].content = queryRequests[2].body.query

\* a message of the log reduced to role and content
TurnOf(msg) ==
    LET role == IF msg.type = "user" THEN "user" ELSE "assistant"
    IN  IF "content" \in DOMAIN msg
        THEN [role |-> role, content |-> msg.content]
        ELSE [role |-> role]

\* C3: a step that sends a query request sends as its history the whole log as it
\* stood before the step, in order, each message reduced to role and content.
C3_HistoryIsWholeLog ==
    [][ Len(queryRequests') > Len(queryRequests)
        => LET history == queryRequests'[Len(queryRequests')].body.conversation_history
           IN  /\ Len(history) = Len(messages)
               /\ \A i \in 1 .. Len(messages) : history[i] = TurnOf(messages[i]) ]_vars

\* a submission went out after a failed turn, the fallback message in its history
C3_Witness ==
    /\ Submitted = 2
    /\ queryResponses # <<>>
    /\ queryResponses[1].status # 200
    /\ queryRequests[2].body.conversation_history[2] =
          [role |-> "assistant", content |-> ApologyText]

\* the call of submission k was rejected: no response, or a status outside 2xx
Failed(k) == queryResponses[k].status # 200

\* exactly one assistant message follows the user message of settled submission k
OneReplyAt(k) ==
    /\ messages[2 * k - 1].type = "user"
    /\ messages[2 * k].type = "bot"
    /\ Len(messages) > 2 * k => messages[2 * k + 1].type = "user"

\* C4 as claimed: when the query call of a submission fails, the log gains exactly
\* one assistant fallback message for it, with empty sources and with confidence
\* absent, its confidence bucket being Unknown.
C4_FallbackUnknown ==
    \A k \in 1 .. Settled :
        Failed(k) =>
            /\ OneReplyAt(k)
            /\ messages[2 * k].content = ApologyText
            /\ messages[2 * k].sources = <<>>
            /\ "confidence" \notin DOMAIN messages[2 * k]
            /\ ConfidenceBadge(messages[2 * k]) = "Unknown"

\* C4 as amended: when the query call of a submission fails, the log gains exactly
\* one assistant fallback message for it, with empty sources and with confidence 0,
\* its confidence bucket being Low.
C4_FallbackLow ==
    \A k \in 1 .. Settled :
        Failed(k) =>
            /\ OneReplyAt(k)
            /\ messages[2 * k].content = ApologyText
            /\ messages[2 * k].sources = <<>>
            /\ "confidence" \in DOMAIN messages[2 * k]
            /\ messages[2 * k].confidence = 0
            /\ ConfidenceBadge(messages[2 * k]) = "Low"

\* a call that got no response has settled, and so has a later one
C4_Witness ==
    /\ Settled = 2
    /\ queryResponses[1].status = 0
    /\ Len(messages) = 4

IsPrefix(s, t) == Len(s) <= Len(t) /\ SubSeq(t, 1, Len(s)) = s

\* C5: every step leaves the log it found as a prefix of the log it leaves.
C5_AppendOnly == [][IsPrefix(messages, messages')]_vars

\* the user message of a failed submission is still in the log, before the fallback
C5_Witness ==
    /\ Settled >= 1
    /\ Failed(1)
    /\ Len(messages) >= 2
    /\ messages[1].type = "user"
    /\ messages[1].content = queryRequests[1].body.query

\* C6: a message later in the log has the strictly larger id.
C6_IdsIncrease ==
    \A i \in 1 .. Len(messages) : \A j \in 1 .. Len(messages) :
        i < j => messages[i].id < messages[j].id

\* C7: a submit while a submission is in flight appends no message, issues no
\* query request and leaves the loading flag and the input as they were.
C7_SubmitWhileLoadingIsNoOp ==
    [][ (loading /\ handleSubmit)
        => /\ messages' = messages
           /\ queryRequests' = queryRequests
           /\ loading' = loading
           /\ input' = input ]_vars

\* a query is in flight and the input box holds a question
C7_Witness ==
    /\ loading
    /\ Submitted < MaxSubmits
    /\ input = QuickActionText

\* the text is empty or all white space
IsBlank(s) == \A i \in 1 .. Len(s) : s[i] \in WhiteSpace

\* c is s without its leading and trailing white space
IsTrimmed(c, s) ==
    /\ c # <<>> => c[1] \notin WhiteSpace /\ c[Len(c)] \notin WhiteSpace
    /\ \E i \in 0 .. Len(s) : \E j \in i .. Len(s) :
         /\ c = SubSeq(s, i + 1, j)
         /\ IsBlank(SubSeq(s, 1, i))
         /\ IsBlank(SubSeq(s, j + 1, Len(s)))

\* C8: a submit of a question that is empty after trimming appends no message,
\* issues no query and leaves the loading flag alone; an accepted submit stores the
\* trimmed question as the user message and sends it as the query text.
C8_TrimmedQuestion ==
    [][ handleSubmit
        => IF IsBlank(input)
           THEN /\ messages' = messages
                /\ queryRequests' = queryRequests
                /\ loading' = loading
           ELSE ~loading
                => /\ Len(messages') = Len(messages) + 1
                   /\ IsTrimmed(messages'[Len(messages')].content, input)
                   /\ Len(queryRequests') = Len(queryRequests) + 1
                   /\ IsTrimmed(queryRequests'[Len(queryRequests')].body.query, input) ]_vars

\* a question typed with white space around it went out trimmed, and an all-blank
\* question is in the input box
C8_Witness ==
    /\ Submitted >= 1
    /\ queryRequests[1].body.query = <<"a">>
    /\ messages[1].content = <<"a">>
    /\ input = <<" ">>
    /\ ~loading

\* C9: the log always holds one user message per accepted submission and one
\* assistant message per settled call, and whenever a submission is in flight the
\* session comes to a state where loading is false again, every accepted
\* submission has settled and the newest message is an assistant message.
C9_SubmissionResolves ==
    /\ [](Len(messages) = Submitted + Settled)
    /\ loading ~> (/\ ~loading
                   /\ Submitted > 0
                   /\ Settled = Submitted
                   /\ messages[Len(messages)].type = "bot")

\* one submission resolved by a reply and one by the fallback
C9_Witness ==
    /\ ~loading
    /\ Settled = 2
    /\ queryResponses[1].status = 200
    /\ queryResponses[2].status # 200
    /\ Len(messages) = 4

\* C10: a 2xx response without the answer field is answered by the fallback
\* message, not by an assistant message built from the response.
C10_MissingAnswerIsFailure ==
    \A k \in 1 .. Settled :
        (queryResponses[k].status = 200 /\ "answer" \notin DOMAIN queryResponses[k].data)
        => /\ "content" \in DOMAIN messages[2 * k]
           /\ messages[2 * k].content = ApologyText

(***************************************************************************)
(* Properties of the document scope.                                       *)
(***************************************************************************)
\* the ids of the documents of the list
DocumentIds == {documents[i].document_id : i \in 1 .. Len(documents)}

\* C11: in every reachable state the selected document scope is either none ("",
\* all documents) or the id of a document of the current document list.
C11_ScopeInList == selectedDocument = "" \/ selectedDocument \in DocumentIds

\* a question went out scoped to a document of the list, which is still selected
C11_Witness ==
    /\ selectedDocument = "doc-123"
    /\ selectedDocument \in DocumentIds
    /\ ~documentsPending
    /\ Submitted >= 1
    /\ "document_id" \in DOMAIN queryRequests[1].body

\* C12: a step that replaces the document list by a fetched list without the
\* selected document resets the scope to none.
C12_StaleScopeReset ==
    [][ (documents' # documents /\ selectedDocument # ""
         /\ \A i \in 1 .. Len(documents') : documents'[i].document_id # selectedDocument)
        => selectedDocument' = "" ]_vars

\* the one fetch of the list has settled before a document can be selected
C12_NoFetchOnceScoped == selectedDocument # "" => ~documentsPending

(***************************************************************************)
(* Properties of the summary view.                                         *)
(***************************************************************************)
\* the summarize calls for the document that have not settled
InFlight(documentId) ==
    {i \in 1 .. Len(summarizeCalls) : Pending(i) /\ DocumentOfCall(i) = documentId}

\* the step settles a summarize call
SummarizeSettles ==
    /\ Len(summarizeCalls') = Len(summarizeCalls)
    /\ summarizeCalls' # summarizeCalls

\* the step issues a summarize call
SummarizeIssued == Len(summarizeCalls') = Len(summarizeCalls) + 1

\* the step opens the summary view
Opens == ~showSummaryModal /\ showSummaryModal'

\* the step closes the summary view
Closes == showSummaryModal /\ ~showSummaryModal'

\* the summary state is absent: nothing loading, no summary, no error
Absent == ~modalLoading /\ summaryData = NoSummary /\ modalError = NoError

\* C13: at any time at most one summarize request is in flight for a document,
\* whatever the sequence of opening, closing, reopening, retrying and regenerating.
C13_OneInFlight == \A d \in DocumentIds : Cardinality(InFlight(d)) <= 1

\* C14: a trigger of the summary generation (the Summary button, Try Again,
\* Generate Summary, Regenerate) while the summary state is loading issues no
\* summarize call and leaves the state loading.
C14_TriggerWhileLoadingIsNoOp ==
    [][ (modalLoading /\ (openSummary \/ tryAgain \/ generate \/ regenerate))
        => /\ summarizeCalls' = summarizeCalls
           /\ modalLoading'
           /\ summaryData' = summaryData
           /\ modalError' = modalError ]_vars

\* a regeneration is loading, its button on display, and a further call could be made
C14_Witness ==
    /\ showSummaryModal
    /\ modalLoading
    /\ summaryData # NoSummary
    /\ Cardinality(InFlight("doc-123")) = 1
    /\ Len(summarizeCalls) < MaxSummarize

\* C15: a summarize call that settles, fulfilled or rejected, while the summary
\* view is closed (it was reset while the call was loading) leaves the summary
\* state absent: not ready and not error.
C15_LateResultDiscarded ==
    [][ (~showSummaryModal /\ SummarizeSettles)
        => /\ summaryData' = NoSummary
           /\ modalError' = NoError
           /\ ~modalLoading' ]_vars

\* C16: the step that opens the summary view for a document while the summary
\* state is absent issues a summarize request for that document and leaves the
\* state loading.
C16_OpenGenerates ==
    [][ (Opens /\ Absent)
        => /\ SummarizeIssued
           /\ ~summarizeCalls'[Len(summarizeCalls')].settled
           /\ summarizeCalls'[Len(summarizeCalls')].request.url[2] = selectedDocument
           /\ selectedDocumentForSummary' = selectedDocument
           /\ modalLoading'
           /\ summaryData' = NoSummary
           /\ modalError' = NoError ]_vars

\* the view was just opened for the first time: its one call is in flight
C16_Witness ==
    /\ showSummaryModal
    /\ selectedDocumentForSummary = "doc-123"
    /\ modalLoading
    /\ Len(summarizeCalls) = 1
    /\ Pending(1)
    /\ DocumentOfCall(1) = "doc-123"

\* a summary was generated for the document: a call for it was fulfilled with one
Generated(documentId) ==
    \E i \in 1 .. Len(summarizeCalls) :
        /\ DocumentOfCall(i) = documentId
        /\ summarizeCalls[i].settled
        /\ summarizeCalls[i].response.status = 200
        /\ "summary" \in DOMAIN summarizeCalls[i].response.data

\* C17 as claimed: the step that opens the summary view for a document whose
\* summary was generated earlier issues no summarize request and shows the
\* generated payload.
C17_SummaryCached ==
    [][ (Opens /\ Generated(selectedDocument))
        => /\ summarizeCalls' = summarizeCalls
           /\ summaryData' = <<"summary of ", selectedDocument>> ]_vars

\* C17 as amended: the step that closes the summary view leaves the summary state
\* absent, whatever it held, and the step that opens the view issues a summarize
\* request exactly when the state it finds holds no summary and is not loading,
\* showing the summary it finds otherwise.
C17_ClosedViewKeepsNothing ==
    [][ /\ Closes => (~modalLoading' /\ summaryData' = NoSummary /\ modalError' = NoError)
        /\ Opens => /\ SummarizeIssued <=> (summaryData = NoSummary /\ ~modalLoading)
                    /\ summaryData' = summaryData ]_vars

\* the view was closed on a summary that was ready and is open again: the summary
\* is gone and a second call for the document is in flight
C17_Witness ==
    /\ showSummaryModal
    /\ Len(summarizeCalls) = 2
    /\ summarizeCalls[1].settled
    /\ summarizeCalls[1].response.status = 200
    /\ "summary" \in DOMAIN summarizeCalls[1].response.data
    /\ Pending(2)
    /\ DocumentOfCall(2) = DocumentOfCall(1)
    /\ summaryData = NoSummary
    /\ modalLoading

(***************************************************************************)
(* Properties of the API client.                                           *)
(***************************************************************************)
Unauthorized == [status |-> 401]

\* the step settles a request of the client with a 401 response
Settles401 ==
    \/ QueryRejected(Unauthorized)
    \/ loadDocuments(Unauthorized)
    \/ \E i \in 1 .. Len(summarizeCalls) : summarizeRejected(i, Unauthorized)

\* a 401 is among the responses the session has kept
Seen401 ==
    \/ \E k \in 1 .. Len(queryResponses) : queryResponses[k].status = 401
    \/ \E i \in 1 .. Len(summarizeCalls) :
         summarizeCalls[i].settled /\ summarizeCalls[i].response.status = 401

\* C18: a step that settles a request (query, documents, summarize) with a 401
\* response leaves no stored token and the client at the login page, and no token
\* is stored from then on.
C18_UnauthorizedLogsOut ==
    [][ /\ Settles401 => (token' = NoToken /\ location' = "/login")
        /\ Seen401 => (token = NoToken /\ location = "/login") ]_vars

\* a query call and a summarize call were both answered 401
C18_Witness ==
    /\ \E k \in 1 .. Len(queryResponses) : queryResponses[k].status = 401
    /\ \E i \in 1 .. Len(summarizeCalls) :
         summarizeCalls[i].settled /\ summarizeCalls[i].response.status = 401
    /\ token = NoToken
    /\ location = "/login"

\* the request the step sends, if it sends one
SendsQuery == Len(queryRequests') = Len(queryRequests) + 1

SentHeaders ==
    IF SendsQuery
    THEN queryRequests'[Len(queryRequests')].headers
    ELSE summarizeCalls'[Len(summarizeCalls')].request.headers

\* C19 as claimed: every request the client sends carries the header
\* Authorization: Bearer <token>, <token> being the stored credential.
C19_AlwaysBearer ==
    [][ (SendsQuery \/ SummarizeIssued)
        => /\ "Authorization" \in DOMAIN SentHeaders
           /\ SentHeaders.Authorization = <<"Bearer ", token>> ]_vars

\* C19 as amended: a request sent while a credential is stored carries the header
\* Authorization: Bearer <token>, <token> being the stored credential; a request
\* sent while none is stored carries no Authorization header.
C19_BearerWhenStored ==
    [][ (SendsQuery \/ SummarizeIssued)
        => IF token # NoToken
           THEN /\ "Authorization" \in DOMAIN SentHeaders
                /\ SentHeaders.Authorization = <<"Bearer ", token>>
           ELSE "Authorization" \notin DOMAIN SentHeaders ]_vars

\* a question went out with the credential and was answered 401, and a summarize
\* request went out after it without one
C19_Witness ==
    /\ Len(queryRequests) = 1
    /\ "Authorization" \in DOMAIN queryRequests[1].headers
    /\ queryRequests[1].headers.Authorization = <<"Bearer ", "token">>
    /\ Len(queryResponses) = 1
    /\ queryResponses[1].status = 401
    /\ token = NoToken
    /\ Len(summarizeCalls) = 1
    /\ "Authorization" \notin DOMAIN summarizeCalls[1].request.headers

(***************************************************************************)
(* Properties of the confidence badge.                                     *)
(***************************************************************************)
\* C20: the badge of an assistant message is High when its confidence is at least
\* 0.8, Medium when it is at least 0.6 and below 0.8, Low when it is below 0.6, and
\* Unknown (no badge) when the message has no confidence; 0.8 gives High, 0.79999
\* Medium, 0.6 Medium and 0.59999 Low.
C20_ConfidenceBuckets ==
    /\ Len(badges) = Len(messages)
    /\ \A k \in 1 .. Settled :
         LET data == queryResponses[k].data
             badge == badges[2 * k]
         IN  /\ messages[2 * k].type = "bot"
             /\ "confidence" \notin DOMAIN data => badge = "Unknown"
             /\ "confidence" \in DOMAIN data =>
                  /\ data.confidence >= 80000 => badge = "High"
                  /\ (data.confidence >= 60000 /\ data.confidence < 80000)
                     => badge = "Medium"
                  /\ data.confidence < 60000 => badge = "Low"
                  /\ data.confidence = 80000 => badge = "High"
                  /\ data.confidence = 79999 => badge = "Medium"
                  /\ data.confidence = 60000 => badge = "Medium"
                  /\ data.confidence = 59999 => badge = "Low"

\* replies on both sides of the upper threshold are in the log
C20_Witness ==
    /\ Settled = 2
    /\ "confidence" \in DOMAIN queryResponses[1].data
    /\ "confidence" \in DOMAIN queryResponses[2].data
    /\ queryResponses[1].data.confidence = 80000
    /\ queryResponses[2].data.confidence = 79999
    /\ badges[2] = "High"
    /\ badges[4] = "Medium"

\* the step settles a summarize call with a failure: no response, or a status
\* outside 2xx
SummarizeFails ==
    \E i \in 1 .. Len(summarizeCalls) :
        /\ ~summarizeCalls[i].settled
        /\ summarizeCalls'[i].settled
        /\ summarizeCalls'[i].response.status # 200

\* the Try Again button is on display
TryAgainShown == showSummaryModal /\ ~modalLoading /\ modalError # NoError

\* C25: a step that settles a summarize call with a failure while the summary view
\* is open leaves the summary state error: the error message set, loading false,
\* the Try Again button on display; the failure goes no further: the view stays
\* open, the summary it held stays, and the chat is left as it was.
C25_FailureIsErrorState ==
    [][ (showSummaryModal /\ SummarizeFails)
        => /\ modalError' = SummaryErrorText
           /\ ~modalLoading'
           /\ TryAgainShown'
           /\ summaryData' = summaryData
           /\ UNCHANGED <<chatVars, selectedDocument, documents>> ]_vars

\* a regeneration failed with a server error: the error is shown over the summary
\* that the view still holds
C25_Witness ==
    /\ TryAgainShown
    /\ modalError = SummaryErrorText
    /\ summaryData # NoSummary
    /\ Len(summarizeCalls) = 2
    /\ summarizeCalls[2].settled
    /\ summarizeCalls[2].response.status = 500

\* the summary state, as the view tells the cases apart: loading first, then
\* error, then the summary
SummaryState ==
    IF modalLoading THEN "loading"
    ELSE IF modalError # NoError THEN "error"
    ELSE IF summaryData # NoSummary THEN "ready"
    ELSE "absent"

SummaryTransitions ==
    { <<"absent", "loading">>, <<"loading", "ready">>, <<"loading", "error">>,
      <<"error", "loading">>, <<"ready", "loading">> }

\* C24: a step other than a reset (the closing of the view) that changes the
\* summary state takes it from absent to loading, from loading to ready or to
\* error, from error to loading or from ready to loading; so ready and error are
\* entered from loading only.
C24_SummaryTransitions ==
    [][ (~Closes /\ SummaryState' # SummaryState)
        => /\ <<SummaryState, SummaryState'>> \in SummaryTransitions
           /\ SummaryState' \in {"ready", "error"} => SummaryState = "loading" ]_vars

\* the view shows a summary: it is open, nothing is loading, there is no error
SummaryShown ==
    showSummaryModal /\ ~modalLoading /\ modalError = NoError /\ summaryData # NoSummary

\* C27: the summary that the view shows under a document when it is opened is the
\* response to a summarize request for that document, never the response for
\* another document that arrived while the view was closed.
C27_OpenedViewShowsOwnSummary ==
    [][ (Opens /\ SummaryShown')
        => /\ summaryData' = <<"summary of ", selectedDocumentForSummary'>>
           /\ \E i \in 1 .. Len(summarizeCalls) :
                /\ DocumentOfCall(i) = selectedDocumentForSummary'
                /\ summarizeCalls[i].settled
                /\ summarizeCalls[i].response.status = 200 ]_vars

(***************************************************************************)
(* Properties of the chat view and the summary view together.              *)
(***************************************************************************)
\* the step belongs to the summary view: it opens or closes (resets) the view, or
\* starts or settles a summarize call
SummaryStep == Opens \/ Closes \/ summarizeCalls' # summarizeCalls

\* C21: a step of the summary view (a summarize call started, fulfilled or
\* rejected, the view opened or reset) leaves the message log and the loading flag
\* of the chat as they were, and the query calls too, also while a query is
\* pending.
C21_SummaryLeavesChatAlone ==
    [][ SummaryStep
        => /\ messages' = messages
           /\ loading' = loading
           /\ queryRequests' = queryRequests
           /\ queryResponses' = queryResponses ]_vars

\* a summarize call was started and fulfilled while a query was pending, and the
\* log holds the question only
C21_Witness ==
    /\ loading
    /\ Len(queryRequests) = 1
    /\ queryResponses = <<>>
    /\ Len(messages) = 1
    /\ Len(summarizeCalls) = 1
    /\ summarizeCalls[1].settled
    /\ summarizeCalls[1].response.status = 200
    /\ summaryData # NoSummary

\* the step settles a query call with a 401 response
QuerySettles401 ==
    /\ Len(queryResponses') = Len(queryResponses) + 1
    /\ queryResponses'[Len(queryResponses')].status = 401

\* the step settles a summarize call with a 401 response
SummarizeSettles401 ==
    \E i \in 1 .. Len(summarizeCalls) :
        /\ ~summarizeCalls[i].settled
        /\ summarizeCalls'[i].settled
        /\ summarizeCalls'[i].response.status = 401

\* C22: a 401 response to a query call or to a summarize call is left to the
\* response interceptor: the step that settles it adds no fallback message to the
\* chat log and sets no error in the summary state.
C22_AuthErrorNotRecovered ==
    [][ /\ QuerySettles401 => messages' = messages
        /\ SummarizeSettles401 => modalError' = modalError ]_vars

\* C23: the body of the query request a step sends carries query and
\* conversation_history, and carries document_id exactly when a document is
\* selected as scope at the submit, document_id being the selected id.
C23_ScopeInBody ==
    [][ SendsQuery
        => LET body == queryRequests'[Len(queryRequests')].body
           IN  /\ {"query", "conversation_history"} \subseteq DOMAIN body
               /\ DOMAIN body \subseteq {"query", "conversation_history", "document_id"}
               /\ "document_id" \in DOMAIN body <=> selectedDocument # ""
               /\ "document_id" \in DOMAIN body => body.document_id = selectedDocument ]_vars

\* a question scoped to a document was followed by one over all documents
C23_Witness ==
    /\ Len(queryRequests) = 2
    /\ "document_id" \in DOMAIN queryRequests[1].body
    /\ queryRequests[1].body.document_id = "doc-123"
    /\ "document_id" \notin DOMAIN queryRequests[2].body
    /\ selectedDocument = ""

\* the user messages of the log
UserMessages == {i \in 1 .. Len(messages) : messages[i].type = "user"}

\* C26: each accepted submission issues exactly one query request: a step sends a
\* query request only as a submit that is accepted, which sends one; a step that
\* settles a query call, fulfilled or rejected, sends none; so the requests sent
\* are as many as the questions in the log.
C26_NoAutomaticRetry ==
    [][ /\ queryRequests' # queryRequests
           => /\ handleSubmit
              /\ CanSubmit
              /\ queryRequests' = Append(queryRequests, queryRequests'[Len(queryRequests')])
        /\ queryResponses' # queryResponses => queryRequests' = queryRequests
        /\ Len(queryRequests) = Cardinality(UserMessages) ]_vars

\* a query call got no response: the fallback is in the log, no request is pending
\* and none was sent again, a new question being ready in the input box
C26_Witness ==
    /\ Submitted = 1
    /\ Settled = 1
    /\ queryResponses[1].status = 0
    /\ ~loading
    /\ Len(messages) = 2
    /\ input = QuickActionText

\* the query calls that have not settled
Outstanding == Len(queryRequests) - Len(queryResponses)

\* C28: the loading flag of the chat is true exactly while a query request is
\* outstanding, and at most one query request is outstanding at any time.
C28_LoadingIffOutstanding ==
    /\ Outstanding \in {0, 1}
    /\ loading <=> Outstanding = 1

\* the second question is outstanding, the first one answered
C28_Witness ==
    /\ loading
    /\ Submitted = 2
    /\ Settled = 1
    /\ queryResponses[1].status = 200
    /\ Len(messages) = 3
(***************************************************************************)
(* Properties of the Documents page.                                       *)
(***************************************************************************)
\* C29: on the Documents page the selected document ids are always among the ids
\* of the displayed document list, whatever was selected, deleted and refreshed.
C29_SelectionInList == selectedDocuments \subseteq pageDocuments

\* a delete handler that has returned
Finished(op) == op.phase \in {"done", "failed"}

\* C30: once a bulk delete has finished, with every request done or with some
\* failed, the displayed list holds no document whose delete request succeeded.
C30_DeletedNotDisplayed ==
    \A k \in 1 .. Len(deleteOps) :
        (deleteOps[k].bulk /\ Finished(deleteOps[k]))
            => deleteOps[k].succeeded \cap pageDocuments = {}

====
